---------------------------- MODULE Spec2Model ----------------------------
(***************************************************************************)
(* A state-machine model of AudioSynthPlaytune (synth_Playtune.cpp/.h):    *)
(* the score sequencer (play / stop / tune_stepscore), the 16 tone         *)
(* generators with their DAHDSR envelope, and the per-sample mixer of      *)
(* update().                                                               *)
(*                                                                         *)
(* Integers are kept at the width of the C types.  TLC's integers are      *)
(* 32 bits wide, so the few 64-bit products of the source are computed by  *)
(* an algebraically equal expression that stays inside 32 bits; each such  *)
(* place says so.                                                          *)
(***************************************************************************)
EXTENDS Integers, Sequences, FiniteSets, TLC

(***************************************************************************)
(* Parameters of the host audio library (AudioStream.h, not part of this   *)
(* repository).  The real values are 44117.64706 Hz and 128 samples; the   *)
(* model runs the same code at a lower rate and a shorter block so that    *)
(* envelope phases and waits last tens of samples instead of thousands.    *)
(***************************************************************************)
AUDIO_SAMPLE_RATE == 4000

AUDIO_BLOCK_SAMPLES == 16

(* Bounds of the model: host calls and rendered samples per behaviour.     *)
MaxPlays == 2

MaxStops == 1

MaxSamples == 48

(* Rendered samples per behaviour of the long runs (VoiceSpec).            *)
MaxVoiceSamples == 700

(* Longest delay, attack, hold or decay (in samples) of the catalogues     *)
(* with short envelope phases (CatalogSpec).                               *)
MaxPhase == 2

(* Samples left on the countdown of a voice in Sustain at the start of a   *)
(* run of SustainSpec.                                                     *)
MaxSustainLeft == 3

(* Length of the modelled percussion tables (synth_Playtune_waves.c is not *)
(* part of the sources; drum d has DrumLen + d samples).                   *)
DrumLen == 6

(***************************************************************************)
(* Program constants.                                                      *)
(***************************************************************************)
MAX_TGENS == 16

ASSUME_VOLUME == FALSE

MIN_NOTE == 21

MAX_NOTE == 108

INT_MAX == 2147483647

HDR_F1_VOLUME_PRESENT == 128

CMD_PLAYNOTE == 144

CMD_STOPNOTE == 128

CMD_INSTRUMENT == 192

CMD_RESTART == 224

CMD_STOP == 240

I_PIANO == 13

UNITY == 65536

TGens == 0 .. (MAX_TGENS - 1)

EnvStates == {"ENV_IDLE", "ENV_DELAY", "ENV_ATTACK", "ENV_HOLD", "ENV_DECAY",
              "ENV_SUSTAIN", "ENV_RELEASE"}

(***************************************************************************)
(* C arithmetic.                                                           *)
(***************************************************************************)
Min(a, b) == IF a < b THEN a ELSE b

Max(a, b) == IF a > b THEN a ELSE b

(* Mutation: a division that rounds away from zero.                        *)
CDiv_mut(a, b) ==
  IF b = 0 THEN 0
  ELSE IF a >= 0 THEN (a + (b - 1)) \div b ELSE -(((-a) + (b - 1)) \div b)

(* C's "/" on ints truncates towards zero; \div floors.  A division by     *)
(* zero is undefined: the build either traps (see RenderFault) or leaves   *)
(* the quotient 0 of the Cortex-M SDIV instruction, which is what b = 0    *)
(* yields here.                                                            *)
CDiv(a, b) ==
  IF b = 0 THEN 0
  ELSE IF a >= 0 THEN a \div b ELSE -((-a) \div b)

(* arithmetic shift right by 16 of a signed value                          *)
Asr16(x) == x \div 65536

(* conversion of an int to int16_t: the low 16 bits, read as signed        *)
ToInt16(x) ==
  LET m == x % 65536 IN IF m >= 32768 THEN m - 65536 ELSE m

(* signed_multiply_32x16b(a, b) of utility/dspinst.h (ARM SMULWB):         *)
(* (a * (int16_t) b) >> 16.                                                *)
signed_multiply_32x16b(a, b) == Asr16(a * ToInt16(b))

RECURSIVE XorBits(_, _, _)
XorBits(a, b, n) ==
  IF n = 0 THEN 0
  ELSE ((a + b) % 2) + 2 * XorBits(a \div 2, b \div 2, n - 1)

Xor8(a, b) == XorBits(a, b, 8)

(* (phase + incr) & 0x7fffffff for phase in [0, 2^31) and an int32 incr,   *)
(* with the two's-complement wrap of the ARM build, computed without       *)
(* leaving 32 bits.                                                        *)
AddMask31(phase, incr) ==
  LET im == IF incr < 0 THEN (incr + INT_MAX) + 1 ELSE incr
      room == INT_MAX - im
  IN IF phase > room THEN (phase - room) - 1 ELSE phase + im

(***************************************************************************)
(* Static tables.                                                          *)
(***************************************************************************)
freq4096 ==
  << 112640, 119338, 126434, 133952, 141918, 150356, 159297,
     168769, 178805, 189437, 200702, 212636, 225280, 238676, 252868,
     267905, 283835, 300713, 318594, 337539, 357610, 378874, 401403,
     425272, 450560, 477352, 505737, 535809, 567670, 601425, 637188,
     675077, 715219, 757749, 802807, 850544, 901120, 954703, 1011473,
     1071618, 1135340, 1202851, 1274376, 1350154, 1430439, 1515497,
     1605613, 1701088, 1802240, 1909407, 2022946, 2143237, 2270680,
     2405702, 2548752, 2700309, 2860878, 3030994, 3211227, 3402176,
     3604480, 3818814, 4045892, 4286473, 4541360, 4811404, 5097505,
     5400618, 5721755, 6061989, 6422453, 6804352, 7208960, 7637627,
     8091784, 8572947, 9082720, 9622807, 10195009, 10801236, 11443511,
     12123977, 12844906, 13608704, 14417920, 15275254, 16183568,
     17145893 >>

(* fract16(x) = (int32_t)(x * 65536.0) for 1.0, 1.0, .60, .50, ... .10     *)
mixer_amplitude_fractions ==
  << 65536,
     65536, 39321, 32768, 26214, 19660, 16384, 15073, 13107,
     11796, 10485, 9830, 9175, 8519, 7864, 7208, 6553 >>

MixerFraction(n) == mixer_amplitude_fractions[n + 1]

(* ms2cnt(ms) = (int32_t)(ms * AUDIO_SAMPLE_RATE / 1000)                   *)
ms2cnt(ms) == (ms * AUDIO_SAMPLE_RATE) \div 1000

(* lv2fr(0.60) = (int32_t)(0.60 * 65536.0)                                 *)
DF_LV_FRACT == 39321

DF_DL == 0

DF_AT == 10

DF_HL == 2

DF_DC == 30

DF_RL == 30

PIANO_RL == 60

NumInstruments == 15

(* instrument_waveforms[i]: every entry has the default envelope except    *)
(* I_PIANO, whose release is 60 ms.  The waveform pointer is the index.    *)
instrument_waveforms(i) ==
  [waveforms |-> i,
   delay |-> ms2cnt(DF_DL), attack |-> ms2cnt(DF_AT), hold |-> ms2cnt(DF_HL),
   decay |-> ms2cnt(DF_DC),
   release |-> IF i = I_PIANO THEN ms2cnt(PIANO_RL) ELSE ms2cnt(DF_RL),
   sustain_level |-> DF_LV_FRACT]

(* I_AGUITAR=0 I_SAX=1 I_BIRDS=2 I_CELLO=3 I_CLARINET=4 I_CLAVINET=5       *)
(* I_DBASS=6 I_EBASS=7 I_EGUITAR=8 I_ORGAN=9 I_EPIANO=10 I_FLUTE=11        *)
(* I_OBOE=12 I_PIANO=13 I_VIOLIN=14                                        *)
instrument_patch_map ==
  << 6, 6, 7, 6, 7, 7, 7, 7,
     5, 5, 5, 5, 5, 5, 5, 5,
     9, 9, 9, 9, 9, 9, 9, 9,
     0, 8, 8, 8, 8, 8, 8, 0,
     6, 7, 7, 6, 6, 6, 7, 7,
     14, 14, 3, 3, 14, 14, 14, 14,
     14, 14, 14, 14, 14, 14, 14, 14,
     6, 6, 6, 6, 6, 6, 6, 6,
     1, 1, 1, 12, 12, 1, 1, 12,
     11, 11, 11, 11, 11, 11, 11, 11,
     8, 8, 8, 8, 8, 8, 8, 8,
     14, 14, 14, 14, 14, 14, 14, 14,
     2, 2, 2, 2, 2, 2, 2, 2,
     9, 9, 9, 9, 9, 9, 9, 9,
     7, 7, 7, 7, 7, 7, 7, 7,
     2, 2, 2, 2, 2, 2, 2, 2 >>

(* D_BASS=0 D_SNARE=1 D_TOM=2 D_CYMBAL=3 D_BONGO=4 D_BELL=5                *)
drum_patch_map(n) ==
  IF n < 6 THEN n
  ELSE IF n \in 37 .. 39 \/ n = 53 THEN 1
  ELSE IF n \in {40, 42, 44, 46, 47, 49, 64, 65, 77, 78} THEN 2
  ELSE IF n \in {41, 43, 45, 48, 50, 51, 54, 56, 57, 58, 68, 69} THEN 3
  ELSE IF n \in 59 .. 63 \/ n \in 72 .. 76 THEN 4
  ELSE IF n \in {52, 55, 66, 67, 70, 71, 79, 80} THEN 5
  ELSE 0

drum_waveform_frequencies == << 4000, 8000, 8000, 8000, 4000, 4000 >>

(* drum_waveform_size[] lives in synth_Playtune_waves.c                    *)
drum_waveform_size(d) == DrumLen + d

(* The waveform ids of the drums follow those of the instruments.          *)
drum_waveforms(d) == NumInstruments + d

WaveLen(w) ==
  IF w < NumInstruments THEN 256 ELSE drum_waveform_size(w - NumInstruments)

(* The sample tables are in synth_Playtune_waves.c; they are modelled as   *)
(* a full-scale square wave.  A read outside the table yields the word g   *)
(* (whatever follows the table in flash).                                  *)
Waveform(w, i, g) ==
  IF i >= WaveLen(w) THEN g
  ELSE IF (i % 256) < 128 THEN 32767 ELSE -32768

GarbageWords == {-32768, 32767}

VARIABLES
  scenario,            \* "host": bounded host calls; "live": one play, no cap
  score,               \* the bytestream score_start/score_cursor point into
  score_start,         \* offset of the restart anchor in score
  score_cursor,        \* offset of the next byte to decode
  tune_playing,
  num_tgens_used,
  volume_present,
  amplitude_fraction,
  scorewait_samples,
  tone_gen,            \* tone_gen[MAX_TGENS]
  seed,                \* random_byte's static seed
  pc,                  \* where the program is: see PcValues
  nsamples,            \* samples rendered so far
  level,               \* update()'s accumulator for the last sample
  out,                 \* block->data[sample] of the last sample
  rd,                  \* index1/index2 of each voice in the last sample
  budget,              \* host calls still allowed
  fg,                  \* the host call in progress and the interrupt on top of it
  catalog,             \* instrument_waveforms[] as linked into the build
  note_obs,            \* history of the note on each voice
  obs                  \* history of the run, for the properties

vars ==
  << scenario, score, score_start, score_cursor, tune_playing, num_tgens_used,
     volume_present, amplitude_fraction, scorewait_samples, tone_gen, seed, pc,
     nsamples, level, out, rd, budget, catalog, fg, note_obs, obs >>

(***************************************************************************)
(* Tone generators.                                                        *)
(***************************************************************************)
(* A zero-initialised tone_gen_t (the object has static storage).          *)
ZeroToneGen ==
  [tone_phase |-> 0, tone_incr |-> 0, volume_frac |-> 0,
   drum_ending_sample_index |-> 0, instrument_index |-> 0,
   playing |-> FALSE, percussion |-> FALSE,
   env_state |-> "ENV_IDLE", env_mult |-> 0, env_incr |-> 0, env_count |-> 0,
   waveform_array |-> -1]

(* random_byte(): the three xorshift steps on a byte; returns the new seed *)
(* Mutation: the last shift is by 2 instead of 3.                          *)
random_byte_mut(sd) ==
  LET s1 == Xor8(sd, (sd * 128) % 256)
      s2 == Xor8(s1, s1 \div 32)
  IN Xor8(s2, (s2 * 4) % 256)

(* "It has a full period of 255 before repeating."                         *)
RANDOM_PERIOD == 255

random_byte(sd) ==
  LET s1 == Xor8(sd, (sd * 128) % 256)
      s2 == Xor8(s1, s1 \div 32)
  IN Xor8(s2, (s2 * 8) % 256)

(* ((uint64_t) freq4096[note - MIN_NOTE] * 0x80000) / (uint64_t)           *)
(* AUDIO_SAMPLE_RATE, stored into the int32_t tone_incr.  With f = q*R + r *)
(* the quotient is q*2^19 + (r*2^19) / R; its low 32 bits are taken.       *)
MelodicIncr(note) ==
  LET f == freq4096[(note - MIN_NOTE) + 1]
      q == f \div AUDIO_SAMPLE_RATE
      r == f % AUDIO_SAMPLE_RATE
      low31 == ((q % 4096) * 524288) + ((r * 524288) \div AUDIO_SAMPLE_RATE)
  IN IF (q \div 4096) % 2 = 1 THEN (low31 - INT_MAX) - 1 ELSE low31

(* (int64_t) drum_waveform_frequencies[d] * 0x20000 / AUDIO_SAMPLE_RATE    *)
DrumIncr(d) == (drum_waveform_frequencies[d + 1] * 131072) \div AUDIO_SAMPLE_RATE

(* random_byte() << 23                                                     *)
InitialPhase(rb) == rb * 8388608

(* Mutation: the velocity masked with 0x3f.                                *)
VolumeFrac_mut(vol) == ((vol % 64) + 1) * 512

(* ((int32_t)(vol & 0x7f) + 1) << 9                                        *)
VolumeFrac(vol) == ((vol % 128) + 1) * 512

(* The note is clamped into MIN_NOTE..MAX_NOTE.                            *)
ClampNote(note) ==
  IF note < MIN_NOTE THEN MIN_NOTE ELSE IF note > MAX_NOTE THEN MAX_NOTE ELSE note

PlayPercussion(tg, note, vol) ==
  LET drum_enum == drum_patch_map(note - 128)
  IN [tg EXCEPT !.waveform_array = drum_waveforms(drum_enum),
                !.tone_incr = DrumIncr(drum_enum),
                !.tone_phase = 0,
                !.drum_ending_sample_index = drum_waveform_size(drum_enum) - 1,
                !.percussion = TRUE,
                !.env_mult = UNITY,
                !.env_incr = 0,
                !.volume_frac = VolumeFrac(vol),
                !.playing = TRUE]

(* Mutation: a note-on that leaves the envelope of a sounding voice alone. *)
PlayMelodic_mut(tg, note, vol, rb) ==
  LET ins == catalog[tg.instrument_index]
  IN [tg EXCEPT !.waveform_array = ins.waveforms,
                !.env_mult = IF tg.playing THEN @ ELSE 0,
                !.env_count = IF tg.playing THEN @ ELSE ins.delay,
                !.env_state = IF tg.playing THEN @ ELSE "ENV_DELAY",
                !.env_incr = IF tg.playing THEN @ ELSE 0,
                !.tone_incr = MelodicIncr(ClampNote(note)),
                !.tone_phase = InitialPhase(rb),
                !.percussion = FALSE,
                !.volume_frac = VolumeFrac(vol),
                !.playing = TRUE]

PlayMelodic(tg, note, vol, rb) ==
  LET ins == catalog[tg.instrument_index]
  IN [tg EXCEPT !.waveform_array = ins.waveforms,
                !.env_mult = 0,
                !.env_count = ins.delay,
                !.env_state = "ENV_DELAY",
                !.env_incr = 0,
                !.tone_incr = MelodicIncr(ClampNote(note)),
                !.tone_phase = InitialPhase(rb),
                !.percussion = FALSE,
                !.volume_frac = VolumeFrac(vol),
                !.playing = TRUE]

(* tune_playnote(tgen, note, vol) on the voices tgs with the seed sd:      *)
(* the new voices and the new seed.                                        *)
tune_playnote(tgs, sd, tgen, note, vol) ==
  IF tgen < MAX_TGENS
  THEN IF note >= 128
       THEN [tg |-> [tgs EXCEPT ![tgen] = PlayPercussion(tgs[tgen], note, vol)],
             seed |-> sd]
       ELSE [tg |-> [tgs EXCEPT ![tgen] =
                        PlayMelodic(tgs[tgen], note, vol, random_byte(sd))],
             seed |-> random_byte(sd)]
  ELSE [tg |-> tgs, seed |-> sd]

(* Mutation: the release ramps down from the level the note-off finds.     *)
StartRelease_mut(tg) ==
  LET ins == catalog[tg.instrument_index]
  IN [tg EXCEPT !.env_state = "ENV_RELEASE",
                !.env_count = ins.release,
                !.env_incr = CDiv(-tg.env_mult, ins.release)]

(* The release phase set up by tune_stopnote on a melodic voice.           *)
StartRelease(tg) ==
  LET ins == catalog[tg.instrument_index]
  IN [tg EXCEPT !.env_state = "ENV_RELEASE",
                !.env_count = ins.release,
                !.env_mult = ins.sustain_level,
                !.env_incr = CDiv(-ins.sustain_level, ins.release)]

(* Mutation: a note-off that only silences percussion voices.              *)
StopVoice_mut(tg) ==
  IF tg.playing /\ tg.percussion THEN [tg EXCEPT !.playing = FALSE] ELSE tg

StopVoice(tg) ==
  IF tg.playing
  THEN IF ~tg.percussion THEN StartRelease(tg) ELSE [tg EXCEPT !.playing = FALSE]
  ELSE tg

(* Mutation: a note-off that does not test whether the voice is playing.   *)
tune_stopnote_mut(tgs, tgen) ==
  IF tgen < MAX_TGENS
  THEN [tgs EXCEPT ![tgen] = IF ~@.percussion THEN StartRelease(@)
                             ELSE [@ EXCEPT !.playing = FALSE]]
  ELSE tgs

tune_stopnote(tgs, tgen) ==
  IF tgen < MAX_TGENS THEN [tgs EXCEPT ![tgen] = StopVoice(tgs[tgen])] ELSE tgs

(* tune_stopscore's loop: tune_stopnote(i) for i = 0 .. MAX_TGENS-1; the   *)
(* calls touch different voices, so their order does not matter.           *)
StopAllNotes(tgs) == [t \in TGens |-> StopVoice(tgs[t])]

(***************************************************************************)
(* The envelope and one sample of one voice (update()).                    *)
(***************************************************************************)
(* Mutation: the hold phase lasts one sample more than configured.         *)
EnvNext_mut(tg) ==
  LET ins == catalog[tg.instrument_index]
  IN CASE tg.env_state = "ENV_IDLE" -> [tg EXCEPT !.env_count = INT_MAX]
       [] tg.env_state = "ENV_DELAY" ->
            [tg EXCEPT !.env_state = "ENV_ATTACK",
                       !.env_count = ins.attack,
                       !.env_incr = CDiv(UNITY, ins.attack)]
       [] tg.env_state = "ENV_ATTACK" ->
            [tg EXCEPT !.env_state = "ENV_HOLD",
                       !.env_count = ins.hold + 1,
                       !.env_mult = UNITY,
                       !.env_incr = 0]
       [] tg.env_state = "ENV_HOLD" ->
            [tg EXCEPT !.env_state = "ENV_DECAY",
                       !.env_count = ins.decay,
                       !.env_mult = UNITY,
                       !.env_incr = CDiv(ins.sustain_level - UNITY, ins.decay)]
       [] tg.env_state = "ENV_DECAY" ->
            [tg EXCEPT !.env_state = "ENV_SUSTAIN",
                       !.env_count = INT_MAX,
                       !.env_mult = ins.sustain_level,
                       !.env_incr = 0]
       [] tg.env_state = "ENV_SUSTAIN" -> [tg EXCEPT !.env_count = INT_MAX]
       [] tg.env_state = "ENV_RELEASE" ->
            [tg EXCEPT !.env_state = "ENV_IDLE", !.playing = FALSE]

EnvNext(tg) ==
  LET ins == catalog[tg.instrument_index]
  IN CASE tg.env_state = "ENV_IDLE" -> [tg EXCEPT !.env_count = INT_MAX]
       [] tg.env_state = "ENV_DELAY" ->
            [tg EXCEPT !.env_state = "ENV_ATTACK",
                       !.env_count = ins.attack,
                       !.env_incr = CDiv(UNITY, ins.attack)]
       [] tg.env_state = "ENV_ATTACK" ->
            [tg EXCEPT !.env_state = "ENV_HOLD",
                       !.env_count = ins.hold,
                       !.env_mult = UNITY,
                       !.env_incr = 0]
       [] tg.env_state = "ENV_HOLD" ->
            [tg EXCEPT !.env_state = "ENV_DECAY",
                       !.env_count = ins.decay,
                       !.env_mult = UNITY,
                       !.env_incr = CDiv(ins.sustain_level - UNITY, ins.decay)]
       [] tg.env_state = "ENV_DECAY" ->
            [tg EXCEPT !.env_state = "ENV_SUSTAIN",
                       !.env_count = INT_MAX,
                       !.env_mult = ins.sustain_level,
                       !.env_incr = 0]
       [] tg.env_state = "ENV_SUSTAIN" -> [tg EXCEPT !.env_count = INT_MAX]
       [] tg.env_state = "ENV_RELEASE" ->
            [tg EXCEPT !.env_state = "ENV_IDLE", !.playing = FALSE]

RECURSIVE EnvAdvance(_)

(* Mutation: a Sustain whose countdown expires ends the note.              *)
EnvAdvance_mut(tg) ==
  IF tg.env_count = 0
  THEN IF tg.env_state = "ENV_SUSTAIN"
       THEN [tg EXCEPT !.env_state = "ENV_IDLE", !.playing = FALSE,
                       !.env_count = INT_MAX]
       ELSE EnvAdvance(EnvNext(tg))
  ELSE tg

(* while (tg->env_count == 0) { switch (tg->env_state) ... }               *)
EnvAdvance(tg) == IF tg.env_count = 0 THEN EnvAdvance(EnvNext(tg)) ELSE tg

(* The envelope loop of this sample evaluates 0x10000 / env_count or       *)
(* (sustain_level - 0x10000) / env_count with env_count == 0.              *)
RECURSIVE EnvDividesByZero(_)
EnvDividesByZero(tg) ==
  LET ins == catalog[tg.instrument_index]
  IN IF tg.env_count # 0 THEN FALSE
     ELSE \/ tg.env_state = "ENV_DELAY" /\ ins.attack = 0
          \/ tg.env_state = "ENV_HOLD" /\ ins.decay = 0
          \/ EnvDividesByZero(EnvNext(tg))

(* the table indexes and the interpolation fraction of a voice             *)
PercIndex1(phase) == phase \div 131072

(* Mutation: the entry after the next one is the second sample point.      *)
PercIndex2_mut(index1) == index1 + 2

PercIndex2(index1) == index1 + 1

PercScale(phase) == (phase \div 2) % 65536

MelIndex1(phase) == phase \div 8388608

(* Mutation: the second index without the wrap at the end of the table.    *)
MelIndex2_mut(index1) == index1 + 1

MelIndex2(index1) == (index1 + 1) % 256

MelScale(phase) == (phase \div 128) % 65536

PhaseAdvance(phase, incr) == AddMask31(phase, incr)

(* (val1 * (0xFFFF - scale) + val2 * scale) >> 16                          *)
Interpolate(val1, val2, scale) == Asr16((val1 * (65535 - scale)) + (val2 * scale))

(* One sample of a playing voice: the voice afterwards, what it adds to    *)
(* the mix, the two table indexes it read and the envelope multiplier it   *)
(* applied.  af is amplitude_fraction,  *)
(* g the word read by an access outside the table.                         *)
RenderVoice(tg, af, g) ==
  LET index1 == IF tg.percussion THEN PercIndex1(tg.tone_phase)
                 ELSE MelIndex1(tg.tone_phase)
      index2 == IF tg.percussion THEN PercIndex2(index1) ELSE MelIndex2(index1)
      scale == IF tg.percussion THEN PercScale(tg.tone_phase)
               ELSE MelScale(tg.tone_phase)
      tg1 == IF tg.percussion
             THEN IF index2 >= tg.drum_ending_sample_index
                  THEN [tg EXCEPT !.playing = FALSE] ELSE tg
             ELSE LET e == EnvAdvance(tg)
                  IN [e EXCEPT !.env_count = e.env_count - 1]
      wave == Interpolate(Waveform(tg.waveform_array, index1, g),
                          Waveform(tg.waveform_array, index2, g), scale)
      our_level == signed_multiply_32x16b(tg1.env_mult, wave)
      add == signed_multiply_32x16b(tg.volume_frac,
                                    signed_multiply_32x16b(af, our_level))
  IN [tg |-> [tg1 EXCEPT !.tone_phase = PhaseAdvance(tg.tone_phase, tg.tone_incr),
                        !.env_mult = tg1.env_mult + tg1.env_incr],
      add |-> add, index1 |-> index1, index2 |-> index2, mult |-> tg1.env_mult]

(* A voice is rendered when it is below num_tgens_used and playing.        *)
Rendered(tgs, n, t) == t < n /\ tgs[t].playing

(* for (tgen = 0; tgen < num_tgens_used; ++tgen): what each voice does in  *)
(* this sample (a voice that is skipped keeps its state and adds nothing). *)
RenderAll(tgs, n, af, g) ==
  [t \in TGens |-> IF Rendered(tgs, n, t) THEN RenderVoice(tgs[t], af, g)
                   ELSE [tg |-> tgs[t], add |-> 0, index1 |-> -1, index2 |-> -1,
                         mult |-> -1]]

(* level += ... over the voices, in the order of the loop                  *)
RECURSIVE MixLevel(_, _)
MixLevel(rv, n) ==
  IF n = 0 THEN 0 ELSE MixLevel(rv, n - 1) + rv[n - 1].add

(* block->data[sample] = level: an int stored into an int16_t              *)
StoreSample(lv) == ToInt16(lv)

(***************************************************************************)
(* The score bytestream.                                                   *)
(***************************************************************************)
(* The scores the host may play.  'P' = 80, 't' = 116.                     *)
(* 90 3C | wait 2 ms | 80 | wait 1 ms | F0                                 *)
ScoreNote == << 144, 60, 0, 2, 128, 0, 1, 240 >>

(* Pt 6 80 0 4 | 90 3C 64 | 91 84 7F (bongo) | wait 1 | 80 | wait 1 | E0   *)
ScoreLoop ==
  << 80, 116, 6, 128, 0, 4, 144, 60, 100, 145, 132, 127, 0, 1, 128, 0, 1, 224 >>

(* F0 alone                                                                *)
ScoreStopOnly == << 240 >>

(* 90 3C | wait 0 ms | 80 | F0                                             *)
ScoreZeroWait == << 144, 60, 0, 0, 128, 240 >>

(* Pt 8 40 0 0 09 09 | C0 28 | 90 48 | A0 | wait 3 | 80 | F0               *)
ScoreLongHdr ==
  << 80, 116, 8, 64, 0, 0, 9, 9, 192, 40, 144, 72, 160, 0, 3, 128, 240 >>

(* Pt 6 A0 0 C8 | 90 32 7F | wait 1 | F0                                   *)
ScoreManyGens == << 80, 116, 6, 160, 0, 200, 144, 50, 127, 0, 1, 240 >>

(* Pt 6 0 0 2 | 90 80 | 91 80 (two bass drums) | wait 2 | F0               *)
ScoreTwoDrums == << 80, 116, 6, 0, 0, 2, 144, 128, 145, 128, 0, 2, 240 >>

(* 91 82 (tom) | wait 0 | 81 | F0                                          *)
ScoreDrumZeroWait == << 145, 130, 0, 0, 129, 240 >>

(* wait 1 | wait 0 | F0                                                    *)
ScoreWaits == << 0, 1, 0, 0, 240 >>

(* C0 28 | A0 | wait 1 | E0                                                *)
ScoreIdleLoop == << 192, 40, 160, 0, 1, 224 >>

(* 90 3C 7F 00 64 80: note-on, velocity 127, wait 100 ms, note-off as the  *)
(* writer of the stream meant it (no header)                               *)
ScoreVelocityNoHdr == << 144, 60, 127, 0, 100, 128 >>

(* Pt 6 80 0 1 | 90 3C 7F | wait 100 ms | 80                               *)
ScoreVelocityHdr == << 80, 116, 6, 128, 0, 1, 144, 60, 127, 0, 100, 128 >>

(* 90 3C | 91 3E | 92 40 | 93 43 | 94 45 | 84 | wait 1 | 80 | wait 10 |    *)
(* 81 | wait 5 | 82 | wait 30 | 83 | wait 62 | E0: the note-offs arrive in *)
(* Delay, Attack, Hold, Decay and Sustain                                  *)
ScoreOffs ==
  << 144, 60, 145, 62, 146, 64, 147, 67, 148, 69, 132, 0, 1, 128, 0, 10,
     129, 0, 5, 130, 0, 30, 131, 0, 62, 224 >>

(* 90 3C | wait 1 | C0 28 | A0 | wait 1 | 80 | wait 40 | F0                *)
ScoreChange == << 144, 60, 0, 1, 192, 40, 160, 0, 1, 128, 0, 40, 240 >>

(* Pt 6 0 0 1 | 91 3C | wait 1 | 81 | wait 1 | 90 80 | 90 3C | 90 82 |     *)
(* wait 1 | F0                                                             *)
ScoreOutside ==
  << 80, 116, 6, 0, 0, 1, 145, 60, 0, 1, 129, 0, 1, 144, 128, 144, 60,
     144, 130, 0, 1, 240 >>

(* 90 3C | E0: a loop without a wait, a note-on at every turn              *)
ScoreNoteLoop == << 144, 60, 224 >>

(* wait 1 | 90 3C | wait 1 | E0                                            *)
ScoreTick == << 0, 1, 144, 60, 0, 1, 224 >>

(* 90 80 (bass drum) | 91 3C | B3 | wait 1 | 80 | 81 | 82 | DF | wait 2 |   *)
(* 81 | wait 1 | F0: note-offs on a percussion voice, a melodic voice, an  *)
(* idle voice and a releasing voice, and two bytes that are no command     *)
ScoreKinds ==
  << 144, 128, 145, 60, 179, 0, 1, 128, 129, 130, 223, 0, 2, 129, 0, 1, 240 >>

(* Pt 6 80 0 1 | 90 3C v | wait 1 | F0, for every velocity v               *)
ScoreVelocity(v) == << 80, 116, 6, 128, 0, 1, 144, 60, v, 0, 1, 240 >>

Velocities == 1 .. 127

VoiceScores ==
  {ScoreVelocityNoHdr, ScoreVelocityHdr, ScoreOffs, ScoreChange, ScoreOutside,
   ScoreKinds}
    \cup {ScoreVelocity(v) : v \in Velocities}

CatalogScores == {ScoreNote, ScoreIdleLoop}

RandomScores == {ScoreNoteLoop}

PreemptScores == {ScoreNote, ScoreTick, ScoreIdleLoop}

HostScores ==
  {ScoreNote, ScoreLoop, ScoreStopOnly, ScoreZeroWait, ScoreLongHdr,
   ScoreManyGens, ScoreTwoDrums}

LiveScores == {ScoreNote, ScoreDrumZeroWait, ScoreWaits, ScoreIdleLoop}

(* The generator counts the host passes to play(score, n); play(score) is  *)
(* play(score, MAX_TGENS).                                                 *)
NumGensArgs == {3, MAX_TGENS}

(* What flash holds after the end of a score is not known: a read there    *)
(* yields one of these bytes.                                              *)
PastEndBytes == {0, 240}

(* "idle": between calls.  "play_step": tune_stepscore running, called by  *)
(* tune_playscore.  "play_ret": back in tune_playscore, before             *)
(* tune_playing = true.  "upd_step": tune_stepscore running, called by     *)
(* update().  "upd_render": update() after tune_stepscore, before the      *)
(* voice loop of that sample.  "fault": the processor has trapped.         *)
(* With update() as an interrupt, play() and stop() are followed statement *)
(* by statement: "play_test": play() before if (tune_playing);             *)
(* "stop_loop": in the loop of tune_stopscore; "stop_end": after the loop, *)
(* before tune_playing = false; "play_init": tune_playscore after the      *)
(* test, before tune_stepscore.                                            *)
PcValues ==
  {"idle", "play_step", "play_ret", "upd_step", "upd_render", "fault",
   "play_test", "play_init", "stop_loop", "stop_end"}

(* pgm_read_byte(score + i): the set of bytes the read can yield           *)
ReadByte(i) == IF i < Len(score) THEN {score[i + 1]} ELSE PastEndBytes

(* file_header.id1 == 'P' && file_header.id2 == 't'                        *)
HeaderValid(s) == Len(s) >= 2 /\ s[1] = 80 /\ s[2] = 116

(* volume_present = file_header.f1 & HDR_F1_VOLUME_PRESENT, as a bool      *)
HdrVolumePresent(f1) == (f1 \div HDR_F1_VOLUME_PRESENT) % 2 = 1

(* Mutation: the count clamped from above only.                            *)
HdrNumTgens_mut(n) == Min(MAX_TGENS, n)

(* max(1, min(MAX_TGENS, file_header.num_tgens))                           *)
HdrNumTgens(n) == Max(1, Min(MAX_TGENS, n))

(* score_start += file_header.hdr_length                                   *)
HdrSkip(hdr_length) == hdr_length

(* scorewait_samples = (scorewait_msec * 1000 *                            *)
(* (uint64_t)(AUDIO_SAMPLE_RATE + .5)) / 1000000, which equals             *)
(* floor(scorewait_msec * rate / 1000).                                    *)
WaitSamples(msec) == (msec * AUDIO_SAMPLE_RATE) \div 1000

(* Mutation: the two bytes of the wait taken low byte first.               *)
WaitMsec_mut(cmd, b2) == cmd + (b2 * 256)

(* ((unsigned) cmd << 8) | next byte                                       *)
WaitMsec(cmd, b2) == (cmd * 256) + b2

(* pgm_read_byte(instrument_patch_map + ii); the table has 128 entries and *)
(* a read behind it yields some byte, taken here among the instruments.    *)
PatchLookup(ii) ==
  IF ii < 128 THEN {instrument_patch_map[ii + 1]} ELSE {0, I_PIANO}

(* Mutation: the restart goes back to the first byte of the stream.        *)
RestartCursor_mut == IF HeaderValid(score) THEN 0 ELSE score_start

(* Mutation: CMD_RESTART leaves the cursor on the restart command.         *)
RestartCursorStay_mut == score_cursor

(* score_cursor = score_start on CMD_RESTART                               *)
RestartCursor == score_start

AtBlockStart == nsamples % AUDIO_BLOCK_SAMPLES = 0

MaySample ==
  \/ scenario = "live"
  \/ scenario = "voice" /\ nsamples < MaxVoiceSamples
  \/ scenario \in {"host", "catalog", "sustain"} /\ nsamples < MaxSamples
  \/ /\ scenario = "preempt"
     /\ nsamples < MaxSamples
     /\ ~(fg.resume # "none" /\ AtBlockStart /\ nsamples # fg.at)

NextCount == IF scenario = "live" THEN (nsamples + 1) % AUDIO_BLOCK_SAMPLES
             ELSE nsamples + 1

(* what a voice read in the last sample: the phase it started from, the    *)
(* two table indexes, whether the percussion branch was taken, the table,  *)
(* increment and end index it used, and whether the sample left it playing *)
NoRead ==
  [phase |-> -1, index1 |-> -1, index2 |-> -1, perc |-> FALSE,
   wave |-> -1, incr |-> 0, ending |-> 0, ended |-> FALSE, mult |-> -1]

NoReads == [t \in TGens |-> NoRead]

(* The order in which a note passes through the envelope states.           *)
Rank(st) ==
  CASE st = "ENV_DELAY" -> 1
    [] st = "ENV_ATTACK" -> 2
    [] st = "ENV_HOLD" -> 3
    [] st = "ENV_DECAY" -> 4
    [] st = "ENV_SUSTAIN" -> 5
    [] st = "ENV_RELEASE" -> 6
    [] OTHER -> 7

(* The history of the note on a voice.                                     *)
NoNote ==
  [kind |-> "none",      \* "melodic" or "percussion": the last note-on
   ins |-> -1,           \* instrument_index at that note-on (melodic)
   vol |-> -1,           \* its vol argument
   over |-> "none",      \* what the note-on found: "none" for an inactive
                         \* voice, "percussion", or the envelope state
   offFrom |-> "none",   \* envelope state at the last note-off of the note
   offMult |-> -1,       \* env_mult just before that note-off
   offIns |-> -1,        \* instrument_index at that note-off
   n |-> 0,              \* samples rendered in the current envelope state
   age |-> 0,            \* samples rendered since the note-on
   done |-> [p \in EnvStates |-> -1]]  \* samples each finished state took

NoteOn(tg, note, vol) ==
  [NoNote EXCEPT
     !.kind = IF note >= 128 THEN "percussion" ELSE "melodic",
     !.ins = IF note >= 128 THEN -1 ELSE tg.instrument_index,
     !.vol = vol,
     !.over = IF ~tg.playing THEN "none"
              ELSE IF tg.percussion THEN "percussion" ELSE tg.env_state]

NoteOff(no, tg) ==
  IF tg.playing /\ ~tg.percussion
  THEN [no EXCEPT !.offFrom = tg.env_state, !.offMult = tg.env_mult,
                  !.offIns = tg.instrument_index, !.n = 0]
  ELSE no

AllNotesOff == [t \in TGens |-> NoteOff(note_obs[t], tone_gen[t])]

(* a sample of the voice tg is rendered: the states the envelope loop      *)
(* leaves are finished, the one it stays in has one more sample            *)
NoteRendered(no, tg) ==
  LET e == EnvAdvance(tg)
  IN IF tg.percussion THEN [no EXCEPT !.age = @ + 1]
     ELSE IF e.env_state = tg.env_state
     THEN [no EXCEPT !.age = @ + 1, !.n = @ + 1]
     ELSE [no EXCEPT
             !.age = @ + 1,
             !.n = 1,
             !.done = [p \in EnvStates |->
                         IF p = tg.env_state THEN no.n
                         ELSE IF Rank(p) > Rank(tg.env_state)
                                 /\ Rank(p) < Rank(e.env_state) THEN 0
                         ELSE @[p]]]

ObsInit ==
  [stopped |-> FALSE,     \* CMD_STOP was decoded since the last play()
   waitFrom |-> "none",   \* who decoded the pending wait: "play", "update"
   waitW |-> 0,           \* its length in samples
   waitId |-> 0,          \* flips at every wait decoded
   rendered |-> 0,        \* samples rendered since it was decoded
   lastCmd |-> -1,        \* the last command byte decoded
   lastLen |-> 0,         \* how far that command moved the cursor
   lastVol |-> -1,        \* vol of the last tune_playnote since play()
   fresh |-> FALSE,       \* play() has set the cursor, nothing decoded yet
   reqN |-> 0,            \* num_tgens argument of the last play()
   playGap |-> -1,        \* samples rendered during play()'s own wait
   justStopped |-> FALSE, \* tune_stopscore() has just returned
   draws |-> 0]           \* calls of random_byte so far, modulo RANDOM_PERIOD

(* no host call is in progress                                             *)
FgInit ==
  [resume |-> "none",  \* where the foreground continues after the interrupt
   at |-> 0,           \* nsamples when the interrupt began
   i |-> 0,            \* loop index of tune_stopscore
   from |-> "none",    \* caller of stop(): "host" or "play"
   s |-> << >>,         \* arguments of the play() in progress
   n |-> MAX_TGENS]

InitCommon ==
  /\ fg = FgInit
  /\ score = << >>
  /\ score_start = 0
  /\ score_cursor = 0
  /\ tune_playing = FALSE
  /\ num_tgens_used = MAX_TGENS
  /\ volume_present = ASSUME_VOLUME
  /\ amplitude_fraction = UNITY
  /\ scorewait_samples = 0
  /\ tone_gen = [t \in TGens |-> ZeroToneGen]
  /\ seed = 23
  /\ pc = "idle"
  /\ nsamples = 0
  /\ level = 0
  /\ out = 0
  /\ rd = NoReads
  /\ note_obs = [t \in TGens |-> NoNote]
  /\ obs = ObsInit

(* instrument_waveforms[] of the source                                    *)
SourceCatalog == [i \in 0 .. (NumInstruments - 1) |-> instrument_waveforms(i)]

(* Catalogues in which the delay, attack, hold and decay of the piano are  *)
(* short or zero (an instrument added as the source's comments describe).  *)
ShortPhases == 0 .. MaxPhase

ShortCatalogs ==
  {[SourceCatalog EXCEPT ![I_PIANO] =
      [@ EXCEPT !.delay = dl, !.attack = at, !.hold = hl, !.decay = dc]] :
     dl \in ShortPhases, at \in ShortPhases, hl \in ShortPhases,
     dc \in ShortPhases}

Init ==
  /\ scenario = "host"
  /\ budget = [plays |-> MaxPlays, stops |-> MaxStops]
  /\ catalog = SourceCatalog
  /\ InitCommon

LiveInit ==
  /\ scenario = "live"
  /\ budget = [plays |-> 1, stops |-> 0]
  /\ catalog = SourceCatalog
  /\ InitCommon

(* one play() before the first block, and a long run of update()           *)
VoiceInit ==
  /\ scenario = "voice"
  /\ budget = [plays |-> 1, stops |-> 0]
  /\ catalog = SourceCatalog
  /\ InitCommon

(* play() and stop() in the foreground, update() as an interrupt           *)
PreemptInit ==
  /\ scenario = "preempt"
  /\ budget = [plays |-> MaxPlays, stops |-> MaxStops]
  /\ catalog = SourceCatalog
  /\ InitCommon

(* A piano note that has been in Sustain for all but a few of the INT_MAX  *)
(* samples of its countdown: voice 0 after play(ScoreZeroWait), whose wait *)
(* of 0 ms never expires, so that no command ever ends the note.           *)
SustainLeft == 0 .. MaxSustainLeft

SustainPhases == {0, InitialPhase(random_byte(23))}

SustainedVoice(left, phase) ==
  LET idle == [ZeroToneGen EXCEPT !.instrument_index = I_PIANO]
      tg == PlayMelodic(idle, 60, 127, random_byte(23))
  IN [tg EXCEPT !.env_state = "ENV_SUSTAIN",
                !.env_mult = SourceCatalog[I_PIANO].sustain_level,
                !.env_incr = 0,
                !.env_count = left,
                !.tone_phase = phase]

SustainedNote ==
  LET ins == SourceCatalog[I_PIANO]
  IN [NoteOn(ZeroToneGen, 60, 127) EXCEPT
        !.ins = I_PIANO,
        !.done = [p \in EnvStates |->
                    CASE p = "ENV_DELAY" -> ins.delay
                      [] p = "ENV_ATTACK" -> ins.attack
                      [] p = "ENV_HOLD" -> ins.hold
                      [] p = "ENV_DECAY" -> ins.decay
                      [] OTHER -> -1]]

SustainInit ==
  /\ scenario = "sustain"
  /\ budget = [plays |-> 0, stops |-> 0]
  /\ catalog = SourceCatalog
  /\ fg = FgInit
  /\ score = ScoreZeroWait
  /\ score_start = 0
  /\ score_cursor = 4
  /\ tune_playing = TRUE
  /\ num_tgens_used = MAX_TGENS
  /\ volume_present = ASSUME_VOLUME
  /\ amplitude_fraction = MixerFraction(MAX_TGENS)
  /\ scorewait_samples = 0
  /\ \E left \in SustainLeft, phase \in SustainPhases :
       tone_gen = [t \in TGens |->
                     IF t = 0 THEN SustainedVoice(left, phase)
                     ELSE [ZeroToneGen EXCEPT !.instrument_index = I_PIANO]]
  /\ seed = random_byte(23)
  /\ pc = "idle"
  /\ nsamples = 0
  /\ level = 0
  /\ out = 0
  /\ rd = NoReads
  /\ note_obs = [t \in TGens |-> IF t = 0 THEN SustainedNote ELSE NoNote]
  /\ obs = [ObsInit EXCEPT !.lastCmd = 0, !.lastLen = 2, !.lastVol = 127,
                           !.reqN = MAX_TGENS, !.draws = 1]

(* one play() of a score that calls random_byte without end                *)
RandomInit ==
  /\ scenario = "random"
  /\ budget = [plays |-> 1, stops |-> 0]
  /\ catalog = SourceCatalog
  /\ InitCommon

(* one play() with a catalogue of short envelope phases                    *)
CatalogInit ==
  /\ scenario = "catalog"
  /\ budget = [plays |-> 1, stops |-> 0]
  /\ catalog \in ShortCatalogs
  /\ InitCommon

Scores ==
  CASE scenario = "live" -> LiveScores
    [] scenario = "preempt" -> PreemptScores
    [] scenario = "random" -> RandomScores
    [] scenario = "voice" -> VoiceScores
    [] scenario = "catalog" -> CatalogScores
    [] OTHER -> HostScores

(***************************************************************************)
(* play(score, num_tgens) and tune_playscore up to its call of             *)
(* tune_stepscore.                                                         *)
(***************************************************************************)
(* num_tgens_used after tune_playscore: play() stores its argument, then   *)
(* tune_playscore overwrites it with MAX_TGENS or the header's count.      *)
PlayNumTgens(s, n) ==
  IF HeaderValid(s) THEN HdrNumTgens(s[6]) ELSE MAX_TGENS

(* Mutation: velocity bytes assumed in a stream without header.            *)
PlayVolumePresent_mut(s) ==
  IF HeaderValid(s) THEN HdrVolumePresent(s[4]) ELSE TRUE

PlayVolumePresent(s) ==
  IF HeaderValid(s) THEN HdrVolumePresent(s[4]) ELSE ASSUME_VOLUME

PlayScoreStart(s) == IF HeaderValid(s) THEN HdrSkip(s[3]) ELSE 0

(* if (tune_playing) stop(); ... instrument_index = I_PIANO for all        *)
PlayVoices(tgs, playing) ==
  LET st == IF playing THEN StopAllNotes(tgs) ELSE tgs
  IN [t \in TGens |-> [st[t] EXCEPT !.instrument_index = I_PIANO]]

Play(s, n) ==
  /\ pc = "idle"
  /\ AtBlockStart
  /\ scenario = "voice" => nsamples = 0
  /\ budget.plays > 0
  /\ budget' = [budget EXCEPT !.plays = @ - 1]
  /\ score' = s
  /\ tone_gen' = PlayVoices(tone_gen, tune_playing)
  /\ note_obs' = IF tune_playing THEN AllNotesOff ELSE note_obs
  /\ tune_playing' = FALSE
  /\ volume_present' = PlayVolumePresent(s)
  /\ num_tgens_used' = PlayNumTgens(s, n)
  /\ amplitude_fraction' = MixerFraction(PlayNumTgens(s, n))
  /\ score_start' = PlayScoreStart(s)
  /\ score_cursor' = PlayScoreStart(s)
  /\ pc' = "play_step"
  /\ obs' = [ObsInit EXCEPT !.fresh = TRUE, !.reqN = n, !.draws = obs.draws]
  /\ UNCHANGED << scenario, catalog, fg, scorewait_samples, seed, nsamples, level, out, rd >>

(* tune_playscore after tune_stepscore has returned                        *)
PlayReturn ==
  /\ pc = "play_ret"
  /\ tune_playing' = TRUE
  /\ pc' = "idle"
  /\ obs' = [obs EXCEPT !.justStopped = FALSE]
  /\ UNCHANGED << note_obs, scenario, catalog, fg, score, score_start, score_cursor, num_tgens_used,
                  volume_present, amplitude_fraction, scorewait_samples,
                  tone_gen, seed, nsamples, level, out, rd, budget >>

(***************************************************************************)
(* stop(), called by the host.                                             *)
(***************************************************************************)
Stop ==
  /\ pc = "idle"
  /\ AtBlockStart
  /\ budget.stops > 0
  /\ budget' = [budget EXCEPT !.stops = @ - 1]
  /\ tone_gen' = StopAllNotes(tone_gen)
  /\ note_obs' = AllNotesOff
  /\ tune_playing' = FALSE
  /\ obs' = [obs EXCEPT !.justStopped = TRUE, !.waitFrom = "none"]
  /\ UNCHANGED << scenario, catalog, fg, score, score_start, score_cursor, num_tgens_used,
                  volume_present, amplitude_fraction, scorewait_samples, seed,
                  pc, nsamples, level, out, rd >>

(***************************************************************************)
(* tune_stepscore: one action per command of its loop.                     *)
(***************************************************************************)
Stepping == pc \in {"play_step", "upd_step"}

(* where the caller continues once the loop breaks                         *)
AfterBreak == IF pc = "play_step" THEN "play_ret" ELSE "upd_render"

(* Mutation: the opcode 0xD0 is taken for CMD_INSTRUMENT.                  *)
Opcode_mut(cmd) ==
  IF cmd - (cmd % 16) = CMD_INSTRUMENT + 16 THEN CMD_INSTRUMENT
  ELSE cmd - (cmd % 16)

Opcode(cmd) == cmd - (cmd % 16)

Tgen(cmd) == cmd % 16

Decoded(cmd, len) ==
  [obs EXCEPT !.lastCmd = cmd, !.lastLen = len, !.fresh = FALSE,
              !.waitFrom = "none", !.justStopped = FALSE]

SeqUnchanged ==
  UNCHANGED << scenario, catalog, fg, score, score_start, tune_playing, num_tgens_used,
               volume_present, amplitude_fraction, nsamples, level, out, rd,
               budget >>

DecodeWait ==
  /\ Stepping
  /\ \E cmd \in ReadByte(score_cursor), b2 \in ReadByte(score_cursor + 1) :
       /\ cmd < 128
       /\ scorewait_samples' = WaitSamples(WaitMsec(cmd, b2))
       /\ obs' = [Decoded(cmd, 2) EXCEPT
                    !.waitFrom = IF pc = "play_step" THEN "play" ELSE "update",
                    !.waitW = WaitSamples(WaitMsec(cmd, b2)),
                    !.waitId = 1 - obs.waitId,
                    !.rendered = 0]
  /\ score_cursor' = score_cursor + 2
  /\ pc' = AfterBreak
  /\ UNCHANGED << tone_gen, seed, note_obs >>
  /\ SeqUnchanged

DecodeStopNote ==
  /\ Stepping
  /\ \E cmd \in ReadByte(score_cursor) :
       /\ cmd >= 128
       /\ Opcode(cmd) = CMD_STOPNOTE
       /\ tone_gen' = tune_stopnote(tone_gen, Tgen(cmd))
       /\ note_obs' = [note_obs EXCEPT ![Tgen(cmd)] =
                         NoteOff(@, tone_gen[Tgen(cmd)])]
       /\ obs' = Decoded(cmd, 1)
  /\ score_cursor' = score_cursor + 1
  /\ UNCHANGED << scorewait_samples, seed, pc >>
  /\ SeqUnchanged

(* Mutation: the velocity byte of a note-on is not consumed.               *)
NoteOnLength_mut(present) == 2

(* the bytes of a note-on: command, note, and the velocity if present      *)
NoteOnLength(present) == IF present THEN 3 ELSE 2

(* note = next byte; vol = volume_present ? the byte after : 127           *)
DecodePlayNote ==
  /\ Stepping
  /\ \E cmd \in ReadByte(score_cursor), note \in ReadByte(score_cursor + 1) :
       /\ cmd >= 128
       /\ Opcode(cmd) = CMD_PLAYNOTE
       /\ \E vol \in (IF volume_present THEN ReadByte(score_cursor + 2)
                      ELSE {127}) :
            LET r == tune_playnote(tone_gen, seed, Tgen(cmd), note, vol)
                len == NoteOnLength(volume_present)
            IN /\ tone_gen' = r.tg
               /\ note_obs' = [note_obs EXCEPT ![Tgen(cmd)] =
                                 NoteOn(tone_gen[Tgen(cmd)], note, vol)]
               /\ seed' = r.seed
               /\ obs' = [Decoded(cmd, len) EXCEPT
                            !.lastVol = vol,
                            !.draws = IF r.seed = seed THEN @
                                      ELSE (@ + 1) % RANDOM_PERIOD]
               /\ score_cursor' = score_cursor + len
  /\ UNCHANGED << scorewait_samples, pc >>
  /\ SeqUnchanged

DecodeInstrument ==
  /\ Stepping
  /\ \E cmd \in ReadByte(score_cursor), ii \in ReadByte(score_cursor + 1) :
       /\ cmd >= 128
       /\ Opcode(cmd) = CMD_INSTRUMENT
       /\ \E ix \in PatchLookup(ii) :
            tone_gen' = [tone_gen EXCEPT ![Tgen(cmd)].instrument_index = ix]
       /\ obs' = Decoded(cmd, 2)
  /\ score_cursor' = score_cursor + 2
  /\ UNCHANGED << scorewait_samples, seed, pc, note_obs >>
  /\ SeqUnchanged

DecodeRestart ==
  /\ Stepping
  /\ \E cmd \in ReadByte(score_cursor) :
       /\ cmd >= 128
       /\ Opcode(cmd) = CMD_RESTART
       /\ obs' = Decoded(cmd, 1)
  /\ score_cursor' = RestartCursor
  /\ UNCHANGED << scorewait_samples, tone_gen, seed, pc, note_obs >>
  /\ SeqUnchanged

(* CMD_STOP: stop(), then break                                            *)
DecodeStop ==
  /\ Stepping
  /\ \E cmd \in ReadByte(score_cursor) :
       /\ cmd >= 128
       /\ Opcode(cmd) = CMD_STOP
       /\ obs' = [Decoded(cmd, 1) EXCEPT !.stopped = TRUE, !.justStopped = TRUE]
  /\ score_cursor' = score_cursor + 1
  /\ tone_gen' = StopAllNotes(tone_gen)
  /\ note_obs' = AllNotesOff
  /\ tune_playing' = FALSE
  /\ pc' = AfterBreak
  /\ UNCHANGED << scenario, catalog, fg, score, score_start, num_tgens_used, volume_present,
                  amplitude_fraction, scorewait_samples, seed, nsamples, level,
                  out, rd, budget >>

(* opcodes 0xA0, 0xB0, 0xD0: no branch of the if-chain matches             *)
DecodeOther ==
  /\ Stepping
  /\ \E cmd \in ReadByte(score_cursor) :
       /\ cmd >= 128
       /\ Opcode(cmd) \notin {CMD_STOPNOTE, CMD_PLAYNOTE, CMD_INSTRUMENT,
                              CMD_RESTART, CMD_STOP}
       /\ obs' = Decoded(cmd, 1)
  /\ score_cursor' = score_cursor + 1
  /\ UNCHANGED << scorewait_samples, tone_gen, seed, pc, note_obs >>
  /\ SeqUnchanged

(***************************************************************************)
(* update(): one action per sample of the block.                           *)
(***************************************************************************)
(* the voice loop and the store of one sample                              *)
RenderSample ==
  \E g \in GarbageWords :
    LET rv == RenderAll(tone_gen, num_tgens_used, amplitude_fraction, g)
        lv == MixLevel(rv, num_tgens_used)
    IN /\ tone_gen' = [t \in TGens |-> rv[t].tg]
       /\ level' = lv
       /\ out' = StoreSample(lv)
       /\ rd' = [t \in TGens |->
                   IF Rendered(tone_gen, num_tgens_used, t)
                   THEN [phase |-> tone_gen[t].tone_phase,
                         index1 |-> rv[t].index1, index2 |-> rv[t].index2,
                         perc |-> tone_gen[t].percussion,
                         wave |-> tone_gen[t].waveform_array,
                         incr |-> tone_gen[t].tone_incr,
                         ending |-> tone_gen[t].drum_ending_sample_index,
                         ended |-> ~rv[t].tg.playing,
                         mult |-> rv[t].mult]
                   ELSE NoRead]
       /\ note_obs' = [t \in TGens |->
                         IF Rendered(tone_gen, num_tgens_used, t)
                         THEN NoteRendered(note_obs[t], tone_gen[t])
                         ELSE note_obs[t]]
       /\ nsamples' = NextCount

ObsRendered ==
  [obs EXCEPT !.justStopped = FALSE,
              !.rendered = IF obs.waitFrom = "none" THEN @
                           ELSE Min(@ + 1, obs.waitW + 2)]

(* tune_playing && scorewait_samples && --scorewait_samples == 0           *)
WaitExpires == tune_playing /\ scorewait_samples = 1

(* Mutation: the counter drops by two per sample.                          *)
CountDown_mut(w) ==
  IF tune_playing /\ w # 0 THEN (IF w > 1 THEN w - 2 ELSE 0) ELSE w

CountDown(w) == IF tune_playing /\ w # 0 THEN w - 1 ELSE w

(* a sample in which tune_stepscore is not called                          *)
UpdateSample ==
  /\ pc = "idle"
  /\ MaySample
  /\ ~WaitExpires
  /\ scorewait_samples' = CountDown(scorewait_samples)
  /\ RenderSample
  /\ obs' = ObsRendered
  /\ UNCHANGED << scenario, catalog, fg, score, score_start, score_cursor, tune_playing,
                  num_tgens_used, volume_present, amplitude_fraction, seed, pc,
                  budget >>

(* a sample in which the wait ends: update() calls tune_stepscore          *)
UpdateExpire ==
  /\ pc = "idle"
  /\ MaySample
  /\ WaitExpires
  /\ scorewait_samples' = CountDown(scorewait_samples)
  /\ pc' = "upd_step"
  /\ obs' = [obs EXCEPT !.justStopped = FALSE,
                        !.playGap = IF obs.waitFrom = "play" THEN obs.rendered
                                    ELSE @]
  /\ UNCHANGED << note_obs, scenario, catalog, fg, score, score_start, score_cursor, tune_playing,
                  num_tgens_used, volume_present, amplitude_fraction, tone_gen,
                  seed, nsamples, level, out, rd, budget >>

(* ... and renders the sample once tune_stepscore has returned             *)
UpdateRender ==
  /\ pc = "upd_render"
  /\ RenderSample
  /\ pc' = "idle"
  /\ obs' = ObsRendered
  /\ UNCHANGED << scenario, catalog, fg, score, score_start, score_cursor, tune_playing,
                  num_tgens_used, volume_present, amplitude_fraction,
                  scorewait_samples, seed, budget >>

Next ==
  \/ \E s \in Scores, n \in NumGensArgs : Play(s, n)
  \/ PlayReturn
  \/ Stop
  \/ DecodeWait
  \/ DecodeStopNote
  \/ DecodePlayNote
  \/ DecodeInstrument
  \/ DecodeRestart
  \/ DecodeStop
  \/ DecodeOther
  \/ UpdateSample
  \/ UpdateExpire
  \/ UpdateRender

Spec == Init /\ [][Next]_vars

(***************************************************************************)
(* The run used for progress properties: the host plays one score and      *)
(* never calls stop(); the audio library keeps calling update(), and a     *)
(* function that has been entered runs on.                                 *)
(***************************************************************************)
Progress ==
  \/ PlayReturn
  \/ DecodeWait
  \/ DecodeStopNote
  \/ DecodePlayNote
  \/ DecodeInstrument
  \/ DecodeRestart
  \/ DecodeStop
  \/ DecodeOther
  \/ UpdateSample
  \/ UpdateExpire
  \/ UpdateRender

LiveNext ==
  \/ \E s \in Scores, n \in NumGensArgs : Play(s, n)
  \/ Progress

LiveSpec == LiveInit /\ [][LiveNext]_vars /\ WF_vars(Progress)

(* The long run of one score.                                              *)
VoiceSpec == VoiceInit /\ [][LiveNext]_vars

(* The envelope loop divides by the attack or the decay count; when that   *)
(* is zero the behaviour is undefined.  A build that traps the division    *)
(* stops here; one that does not goes on with the quotient 0 (CDiv).       *)
RenderFault ==
  /\ \/ pc = "idle" /\ MaySample /\ ~WaitExpires
     \/ pc = "upd_render"
  /\ \E t \in TGens :
       /\ Rendered(tone_gen, num_tgens_used, t)
       /\ ~tone_gen[t].percussion
       /\ EnvDividesByZero(tone_gen[t])
  /\ pc' = "fault"
  /\ UNCHANGED << scenario, catalog, fg, score, score_start, score_cursor,
                  tune_playing, num_tgens_used, volume_present,
                  amplitude_fraction, scorewait_samples, tone_gen, seed,
                  nsamples, level, out, rd, budget, note_obs, obs >>

CatalogNext ==
  \/ LiveNext
  \/ RenderFault

CatalogSpec == CatalogInit /\ [][CatalogNext]_vars

(***************************************************************************)
(* update() as an interrupt.  The audio library runs update() from an      *)
(* interrupt, the sketch calls play() and stop() from loop(); nothing in   *)
(* the source masks the interrupt, so a block can be rendered between any  *)
(* two statements of a call.  The interrupt runs to its end before the     *)
(* foreground goes on.                                                     *)
(***************************************************************************)
FgUnchanged ==
  UNCHANGED << scenario, catalog, score, score_start, score_cursor,
               volume_present, amplitude_fraction, scorewait_samples, seed,
               nsamples, level, out, rd >>

(* play(score, num_tgens): num_tgens_used = num_tgens; the sketch calls    *)
(* play(score), which is play(score, MAX_TGENS)                            *)
PlayCall(s, n) ==
  /\ scenario = "preempt"
  /\ pc = "idle"
  /\ fg.resume = "none"
  /\ AtBlockStart
  /\ budget.plays > 0
  /\ budget' = [budget EXCEPT !.plays = @ - 1]
  /\ num_tgens_used' = n
  /\ fg' = [fg EXCEPT !.s = s, !.n = n]
  /\ pc' = "play_test"
  /\ UNCHANGED << tune_playing, tone_gen, note_obs, obs >>
  /\ FgUnchanged

(* Mutation: play() does not stop the score that is playing.               *)
MustStop_mut(playing) == FALSE

(* if (tune_playing) stop();                                               *)
MustStop(playing) == playing

PlayTestPlaying ==
  /\ pc = "play_test"
  /\ IF MustStop(tune_playing)
     THEN /\ pc' = "stop_loop"
          /\ fg' = [fg EXCEPT !.i = 0, !.from = "play"]
     ELSE /\ pc' = "play_init"
          /\ fg' = fg
  /\ UNCHANGED << tune_playing, num_tgens_used, tone_gen, note_obs, obs,
                  budget >>
  /\ FgUnchanged

(* stop(), called by the host: tune_stopscore begins                       *)
StopCall ==
  /\ scenario = "preempt"
  /\ pc = "idle"
  /\ fg.resume = "none"
  /\ AtBlockStart
  /\ budget.stops > 0
  /\ budget' = [budget EXCEPT !.stops = @ - 1]
  /\ fg' = [fg EXCEPT !.i = 0, !.from = "host"]
  /\ pc' = "stop_loop"
  /\ UNCHANGED << tune_playing, num_tgens_used, tone_gen, note_obs, obs >>
  /\ FgUnchanged

(* one turn of for (i = 0; i < MAX_TGENS; ++i) tune_stopnote(i)            *)
StopNoteLoop ==
  /\ pc = "stop_loop"
  /\ tone_gen' = tune_stopnote(tone_gen, fg.i)
  /\ note_obs' = [note_obs EXCEPT ![fg.i] = NoteOff(@, tone_gen[fg.i])]
  /\ fg' = [fg EXCEPT !.i = @ + 1]
  /\ pc' = IF fg.i + 1 < MAX_TGENS THEN "stop_loop" ELSE "stop_end"
  /\ UNCHANGED << tune_playing, num_tgens_used, obs, budget >>
  /\ FgUnchanged

(* tune_playing = false, and stop() returns to its caller                  *)
StopScoreEnd ==
  /\ pc = "stop_end"
  /\ tune_playing' = FALSE
  /\ pc' = IF fg.from = "play" THEN "play_init" ELSE "idle"
  /\ obs' = [obs EXCEPT !.justStopped = (fg.from = "host"),
                        !.waitFrom = "none"]
  /\ UNCHANGED << num_tgens_used, tone_gen, note_obs, fg, budget >>
  /\ FgUnchanged

(* tune_playscore from score_start = score to the call of tune_stepscore   *)
PlaySetup ==
  /\ pc = "play_init"
  /\ score' = fg.s
  /\ tone_gen' = PlayVoices(tone_gen, FALSE)
  /\ volume_present' = PlayVolumePresent(fg.s)
  /\ num_tgens_used' = PlayNumTgens(fg.s, fg.n)
  /\ amplitude_fraction' = MixerFraction(PlayNumTgens(fg.s, fg.n))
  /\ score_start' = PlayScoreStart(fg.s)
  /\ score_cursor' = PlayScoreStart(fg.s)
  /\ pc' = "play_step"
  /\ obs' = [ObsInit EXCEPT !.fresh = TRUE, !.reqN = fg.n,
                            !.draws = obs.draws]
  /\ UNCHANGED << scenario, catalog, fg, tune_playing, scorewait_samples,
                  seed, nsamples, level, out, rd, budget, note_obs >>

(* the places of a host call at which the interrupt can arrive             *)
Interruptible ==
  {"play_test", "stop_loop", "stop_end", "play_init", "play_step", "play_ret"}

(* the audio interrupt arrives during a host call: update() starts         *)
InterruptEnter ==
  /\ scenario = "preempt"
  /\ pc \in Interruptible
  /\ fg.resume = "none"
  /\ nsamples + AUDIO_BLOCK_SAMPLES <= MaxSamples
  /\ fg' = [fg EXCEPT !.resume = pc, !.at = nsamples]
  /\ pc' = "idle"
  /\ UNCHANGED << tune_playing, num_tgens_used, tone_gen, note_obs, obs,
                  budget >>
  /\ FgUnchanged

(* update() has rendered its block: the host call goes on                  *)
InterruptReturn ==
  /\ fg.resume # "none"
  /\ pc = "idle"
  /\ AtBlockStart
  /\ nsamples # fg.at
  /\ pc' = fg.resume
  /\ fg' = [fg EXCEPT !.resume = "none"]
  /\ UNCHANGED << tune_playing, num_tgens_used, tone_gen, note_obs, obs,
                  budget >>
  /\ FgUnchanged

PreemptNext ==
  \/ \E s \in Scores : PlayCall(s, MAX_TGENS)
  \/ PlayTestPlaying
  \/ StopCall
  \/ StopNoteLoop
  \/ StopScoreEnd
  \/ PlaySetup
  \/ InterruptEnter
  \/ InterruptReturn
  \/ Progress

PreemptSpec == PreemptInit /\ [][PreemptNext]_vars

(* The decoder in a loop of note-ons, inside play().                       *)
RandomNext ==
  \/ \E s \in Scores : Play(s, MAX_TGENS)
  \/ DecodePlayNote
  \/ DecodeRestart

RandomSpec == RandomInit /\ [][RandomNext]_vars

(* The held note: nothing but update() runs.                               *)
SustainNext == UpdateSample

SustainSpec == SustainInit /\ [][SustainNext]_vars

TypeOK ==
  /\ pc \in PcValues
  /\ tune_playing \in BOOLEAN
  /\ num_tgens_used \in 0 .. 255
  /\ \A t \in TGens : tone_gen[t].env_state \in EnvStates

(***************************************************************************)
(* Properties.                                                             *)
(***************************************************************************)
Played == obs.reqN # 0

IsNoteOn(cmd) == cmd >= 128 /\ Opcode(cmd) = CMD_PLAYNOTE

Clamp(x, lo, hi) == IF x < lo THEN lo ELSE IF x > hi THEN hi ELSE x

C2_StopIsFinal ==
  [][(obs.stopped /\ obs'.stopped) =>
       (~tune_playing' /\ score_cursor' = score_cursor)]_vars

(* C3: with a 'P','t' header the generator count is the header's count     *)
(* clamped into 1..16, the attenuation is the table entry for it, velocity *)
(* bytes are read (note-on is 3 bytes) exactly when bit 0x80 of the first  *)
(* flag byte is set, and decoding and the restart anchor start             *)
(* header_length bytes into the stream; Pt 6 80 0 4 gives 4 generators     *)
(* with velocity.                                                          *)
C3_HeaderAccepted ==
  (Played /\ score[1] = 80 /\ score[2] = 116) =>
    LET count == Clamp(score[6], 1, 16)
        vel == score[4] >= 128
    IN /\ num_tgens_used = count
       /\ amplitude_fraction = mixer_amplitude_fractions[count + 1]
       /\ volume_present = vel
       /\ score_start = score[3]
       /\ obs.fresh => score_cursor = score[3]
       /\ IsNoteOn(obs.lastCmd) => obs.lastLen = (IF vel THEN 3 ELSE 2)
       /\ SubSeq(score, 1, 6) = << 80, 116, 6, 128, 0, 4 >> =>
            num_tgens_used = 4 /\ volume_present

C3_Witness ==
  /\ score = ScoreLoop
  /\ pc = "play_step"
  /\ obs.lastCmd = 145
  /\ obs.lastLen = 3
  /\ obs.lastVol = 127
  /\ score_cursor = 12
  /\ tone_gen[1].playing
  /\ num_tgens_used = 4

C5_PlayUsesRequestedGens ==
  (pc = "idle" /\ obs.reqN \in 1 .. 16
     /\ ~(score[1] = 80 /\ Len(score) >= 2 /\ score[2] = 116)) =>
    /\ num_tgens_used = obs.reqN
    /\ amplitude_fraction = mixer_amplitude_fractions[obs.reqN + 1]

(* C6 (as claimed): when the command after a wait of W > 0 samples is      *)
(* about to be executed, exactly W samples were rendered since the wait    *)
(* was decoded, whether play() or update() decoded it.                     *)
C6_WaitLastsW ==
  (pc = "upd_step" /\ obs.waitFrom # "none" /\ obs.waitW > 0) =>
    obs.rendered = obs.waitW

(* C6 (amended): the counter drops by one per rendered sample and the next *)
(* command is executed in the sample where it reaches zero: W samples are  *)
(* rendered in between for a wait decoded by update(), W - 1 for the first *)
(* wait, decoded by play().                                                *)
C6_WaitSamples ==
  (obs.waitFrom # "none" /\ obs.waitW > 0) =>
    LET early == IF obs.waitFrom = "play" THEN 1 ELSE 0
    IN /\ pc = "upd_step" => obs.rendered = obs.waitW - early
       /\ (pc = "idle" /\ tune_playing) =>
            scorewait_samples = (obs.waitW - early) - obs.rendered + 1
            /\ scorewait_samples >= 1

C6_Witness ==
  /\ pc = "upd_step"
  /\ obs.waitFrom = "update"
  /\ obs.waitW = 4
  /\ obs.rendered = 4
  /\ obs.playGap = 7

(* C7: every wait decoded while playing is eventually followed by the      *)
(* execution of the next command, whatever its length, when update() keeps *)
(* being called and stop() is not.                                         *)
WaitPending(id) == obs.waitFrom # "none" /\ obs.waitId = id

C7_EveryWaitElapses ==
  \A id \in {0, 1} : [](WaitPending(id) => <>(~WaitPending(id)))

(* C8: the restart command sets the cursor to the position just past the   *)
(* header (the stream start without header) and changes no voice.          *)
RestartIsNext ==
  /\ Stepping
  /\ score_cursor < Len(score)
  /\ score[score_cursor + 1] \in 224 .. 239

C8_RestartFrame ==
  [][RestartIsNext =>
       /\ score_cursor' = (IF score[1] = 80 /\ score[2] = 116 THEN score[3]
                           ELSE 0)
       /\ tone_gen' = tone_gen]_vars

C8_Witness ==
  /\ obs.lastCmd = 224
  /\ Stepping
  /\ score_cursor = 6
  /\ score_start = 6
  /\ \E t \in TGens : tone_gen[t].playing /\ tone_gen[t].percussion
  /\ \E t \in TGens : tone_gen[t].playing /\ tone_gen[t].env_state = "ENV_RELEASE"

(* C9: the value written to the output is the accumulated level clamped    *)
(* into [-32768, 32767].                                                   *)
C9_MixerSaturates == out = Clamp(level, -32768, 32767)

(* C10: every voice's phase stays in [0, 2^31); a melodic voice reads the  *)
(* table at phase >> 23, which lies in 0..255, and at (that + 1) mod 256.  *)
C10_MelodicIndexes ==
  \A t \in TGens :
    /\ tone_gen[t].tone_phase >= 0
    /\ tone_gen[t].tone_phase <= 2147483647
    /\ (tone_gen[t].playing /\ ~tone_gen[t].percussion) =>
         (tone_gen[t].tone_phase \div 8388608) \in 0 .. 255
    /\ (rd[t].index1 # -1 /\ ~rd[t].perc) =>
         /\ rd[t].index1 = rd[t].phase \div 8388608
         /\ rd[t].index1 \in 0 .. 255
         /\ rd[t].index2 = (rd[t].index1 + 1) % 256
         /\ rd[t].index2 \in 0 .. 255

C10_Witness ==
  \E t \in TGens :
    /\ tone_gen[t].playing
    /\ ~rd[t].perc
    /\ rd[t].index1 = 255
    /\ rd[t].index2 = 0
    /\ tone_gen[t].tone_phase < rd[t].phase

(* C11: a percussion voice whose playback rate is not above the output     *)
(* sample rate (its increment is at most one table entry per sample) reads *)
(* in every sample two indexes that are at most ending_sample_index, the   *)
(* last valid index of its table, and it is marked inactive in exactly the *)
(* sample where index + 1 >= ending_sample_index.                          *)
C11_PercussionInTable ==
  \A t \in TGens :
    (rd[t].perc /\ rd[t].incr <= 131072) =>
      /\ rd[t].ending = WaveLen(rd[t].wave) - 1
      /\ rd[t].index1 = rd[t].phase \div 131072
      /\ rd[t].index2 = rd[t].index1 + 1
      /\ rd[t].index1 <= rd[t].ending
      /\ rd[t].index2 <= rd[t].ending
      /\ rd[t].ended <=> (rd[t].index1 + 1 >= rd[t].ending)

C11_Witness ==
  \E t \in TGens :
    /\ rd[t].perc
    /\ rd[t].incr <= 131072
    /\ rd[t].index1 > 0
    /\ rd[t].index2 = rd[t].ending
    /\ rd[t].ended
    /\ ~tone_gen[t].playing
    /\ tone_gen[t].percussion

(* the configured length of an envelope phase of an instrument             *)
Duration(ins, p) ==
  CASE p = "ENV_DELAY" -> ins.delay
    [] p = "ENV_ATTACK" -> ins.attack
    [] p = "ENV_HOLD" -> ins.hold
    [] p = "ENV_DECAY" -> ins.decay

TimedPhases == {"ENV_DELAY", "ENV_ATTACK", "ENV_HOLD", "ENV_DECAY"}

(* the envelope of a note passes through each phase in its configured      *)
(* number of samples, a phase of zero samples within the sample it starts; *)
(* with delay 0 and attack 0 (and a hold or decay to be in) the first      *)
(* sample of the note is rendered at full scale                            *)
PhasesCascade ==
  \A t \in TGens :
    note_obs[t].kind = "melodic" =>
      LET ins == catalog[note_obs[t].ins]
      IN /\ \A p \in TimedPhases :
              note_obs[t].done[p] \in {-1, Duration(ins, p)}
         /\ (note_obs[t].age = 1 /\ ins.delay = 0 /\ ins.attack = 0
               /\ ins.hold + ins.decay > 0) => rd[t].mult = UNITY

ReleaseEnded(t) ==
  /\ rd[t].ended
  /\ ~rd[t].perc
  /\ note_obs[t].offFrom = "ENV_SUSTAIN"

(* C13: a note-off in Sustain moves the voice to Release; when the         *)
(* instrument's release count of samples has been rendered the envelope    *)
(* multiplier is exactly zero and the voice is inactive.                   *)
C13_ReleaseReachesZero ==
  \A t \in TGens :
    /\ (note_obs[t].offFrom = "ENV_SUSTAIN" /\ tone_gen[t].playing) =>
         tone_gen[t].env_state = "ENV_RELEASE"
    /\ ReleaseEnded(t) =>
         /\ note_obs[t].done["ENV_RELEASE"] =
              catalog[tone_gen[t].instrument_index].release
         /\ rd[t].mult = 0
         /\ ~tone_gen[t].playing

(* C14: the gain a note-on with velocity v stores on its voice is          *)
(* (v + 1) * 2^9 for v in 1..127; it is strictly increasing in v, lies in  *)
(* (0, 0x10000] and is exactly 0x10000 at v = 127.                         *)
C14_VolumeFraction ==
  /\ \A v \in 1 .. 126 : VolumeFrac(v) < VolumeFrac(v + 1)
  /\ \A v \in 1 .. 127 : VolumeFrac(v) > 0 /\ VolumeFrac(v) <= 65536
  /\ VolumeFrac(127) = 65536
  /\ \A t \in TGens :
       note_obs[t].vol \in 1 .. 127 =>
         /\ tone_gen[t].volume_frac = (note_obs[t].vol + 1) * 512
         /\ tone_gen[t].volume_frac > 0
         /\ tone_gen[t].volume_frac <= 65536
         /\ (tone_gen[t].volume_frac = 65536) <=> (note_obs[t].vol = 127)

C14_Witness ==
  /\ score = ScoreVelocity(64)
  /\ note_obs[0].vol = 64
  /\ tone_gen[0].volume_frac = 33280
  /\ tone_gen[0].playing
  /\ note_obs[0].age > 0

(* 100 ms in samples, and the release count of the default instrument      *)
HundredMs == (100 * AUDIO_SAMPLE_RATE) \div 1000

PianoRelease == (PIANO_RL * AUDIO_SAMPLE_RATE) \div 1000

(* C15 (as claimed): playing the six bytes 90 3C 7F 00 64 80 starts a note *)
(* on generator 0, waits 100 ms with the generator active, then executes   *)
(* the note-off, and the generator is inactive once its release has ended. *)
C15_NoteForWait ==
  score = ScoreVelocityNoHdr =>
    /\ obs.waitFrom = "play" =>
         /\ obs.waitW = HundredMs
         /\ tone_gen[0].playing
         /\ note_obs[0].offFrom = "none"
    /\ nsamples >= HundredMs => note_obs[0].offFrom # "none"
    /\ nsamples >= HundredMs + PianoRelease => ~tone_gen[0].playing

(* C15 (amended): after a header that declares velocity bytes              *)
(* (Pt 06 80 00 01) the same six bytes start a note on generator 0 at      *)
(* velocity 127 and wait 100 ms = W samples with the generator active and  *)
(* not released; the note-off is executed when W - 1 samples have been     *)
(* rendered, and the generator is active up to and inactive from the       *)
(* sample W + release of the run on.                                       *)
C15_HeaderedNoteForWait ==
  score = ScoreVelocityHdr =>
    /\ obs.waitFrom = "play" =>
         /\ obs.waitW = HundredMs
         /\ tone_gen[0].playing
         /\ tone_gen[0].volume_frac = UNITY
         /\ note_obs[0].offFrom = "none"
         /\ nsamples < HundredMs
    /\ note_obs[0].offFrom # "none" => nsamples >= HundredMs - 1
    /\ nsamples >= HundredMs => note_obs[0].offFrom # "none"
    /\ (note_obs[0].kind = "melodic" /\ nsamples < HundredMs + PianoRelease) =>
         tone_gen[0].playing
    /\ nsamples >= HundredMs + PianoRelease => ~tone_gen[0].playing

C15_Witness ==
  /\ score = ScoreVelocityHdr
  /\ nsamples = HundredMs + PianoRelease
  /\ rd[0].ended
  /\ ~tone_gen[0].playing
  /\ note_obs[0].done["ENV_RELEASE"] = PianoRelease
  /\ note_obs[0].done["ENV_DECAY"] > 0

(* the next command is a note-on or note-off for a generator at or above   *)
(* the generator count of the score                                        *)
OutsideNoteIsNext ==
  /\ Stepping
  /\ score_cursor < Len(score)
  /\ score[score_cursor + 1] \in 128 .. 159
  /\ score[score_cursor + 1] % 16 >= num_tgens_used

(* C16: a note-on or note-off whose generator nibble is at or above the    *)
(* generator count in effect changes no voice.                             *)
C16_OutsideGeneratorIgnored ==
  [][OutsideNoteIsNext => tone_gen' = tone_gen]_vars

(* the melodic voice t is active and in the release a note-off started     *)
Releasing(t) ==
  /\ tone_gen[t].playing
  /\ ~tone_gen[t].percussion
  /\ tone_gen[t].env_state = "ENV_RELEASE"
  /\ note_obs[t].offFrom # "none"

(* C17 (as claimed): whatever envelope state (Delay, Attack, Hold, Decay   *)
(* or Sustain) the note-off finds, the multiplier right after it equals    *)
(* the multiplier right before it, and from there it never rises.          *)
C17_ReleaseFromCurrent ==
  \A t \in TGens :
    (Releasing(t) /\ note_obs[t].offFrom # "ENV_RELEASE") =>
      /\ note_obs[t].n = 0 => tone_gen[t].env_mult = note_obs[t].offMult
      /\ tone_gen[t].env_mult <= note_obs[t].offMult
      /\ tone_gen[t].env_incr <= 0

(* C17 (amended): whatever envelope state the note-off finds, the          *)
(* multiplier right after it is the sustain level of the instrument then   *)
(* selected on the generator (a jump, unless the note was in Sustain); it  *)
(* then drops by sustain_level div release with every rendered sample and  *)
(* is not negative while the voice is active.                              *)
C17_ReleaseFromSustainLevel ==
  \A t \in TGens :
    Releasing(t) =>
      LET ins == catalog[note_obs[t].offIns]
          step == ins.sustain_level \div ins.release
      IN /\ tone_gen[t].env_incr = -step
         /\ tone_gen[t].env_mult = ins.sustain_level - (note_obs[t].n * step)
         /\ tone_gen[t].env_count = ins.release - note_obs[t].n
         /\ tone_gen[t].env_mult >= 0
         /\ tone_gen[t].env_mult <= ins.sustain_level

C17_Witness ==
  \E t \in TGens :
    /\ Releasing(t)
    /\ note_obs[t].offFrom = "ENV_ATTACK"
    /\ note_obs[t].offMult < tone_gen[t].env_mult
    /\ note_obs[t].n > 1
    /\ \E u \in TGens :
         /\ Releasing(u)
         /\ note_obs[u].offFrom = "ENV_HOLD"
         /\ note_obs[u].n = 0
         /\ note_obs[u].offMult = UNITY

(* a step that renders a sample                                            *)
RenderStep == nsamples' # nsamples

(* what one step may do to the envelope state of voice t                   *)
EnvStepAllowed(t) ==
  LET a == tone_gen[t].env_state
      b == tone_gen'[t].env_state
      ins == catalog[tone_gen[t].instrument_index]
  IN \/ b = a
     \/ /\ b = "ENV_DELAY"
        /\ ~RenderStep
        /\ obs'.lastCmd = CMD_PLAYNOTE + t
        /\ score_cursor' # score_cursor
     \/ /\ b = "ENV_RELEASE"
        /\ ~RenderStep
        /\ note_obs'[t].offFrom = a
        /\ \/ obs'.lastCmd = CMD_STOPNOTE + t /\ score_cursor' # score_cursor
           \/ ~tune_playing'
     \/ /\ b = "ENV_IDLE"
        /\ a = "ENV_RELEASE"
        /\ RenderStep
        /\ tone_gen[t].env_count = 0
        /\ ~tone_gen'[t].playing
     \/ /\ b \in {"ENV_ATTACK", "ENV_HOLD", "ENV_DECAY", "ENV_SUSTAIN"}
        /\ a \in TimedPhases
        /\ RenderStep
        /\ Rank(a) < Rank(b)
        /\ note_obs'[t].done[a] = Duration(ins, a)
        /\ \A p \in TimedPhases :
             (Rank(a) < Rank(p) /\ Rank(p) < Rank(b)) => Duration(ins, p) = 0

(* a note that has not been stopped is in each timed phase for at most its *)
(* configured number of samples, and the phases it has left took exactly   *)
(* that number                                                             *)
PhasesTimed ==
  \A t \in TGens :
    (note_obs[t].kind = "melodic" /\ note_obs[t].offFrom = "none") =>
      LET ins == catalog[note_obs[t].ins]
          st == tone_gen[t].env_state
      IN /\ st \in TimedPhases \cup {"ENV_SUSTAIN"}
         /\ tone_gen[t].playing
         /\ st \in TimedPhases =>
              tone_gen[t].env_count = Duration(ins, st) - note_obs[t].n
         /\ \A p \in TimedPhases :
              note_obs[t].done[p] =
                (IF Rank(p) < Rank(st) THEN Duration(ins, p) ELSE -1)

(* C18: from a note-on to the next note-on or note-off of a melodic voice  *)
(* the envelope state only moves forward through Delay, Attack, Hold,      *)
(* Decay, Sustain, each of the first four lasting exactly its configured   *)
(* number of rendered samples; Release is entered only by a note-off and   *)
(* Idle only when Release is complete.                                     *)
C18_EnvelopeOrder ==
  /\ [][\A t \in TGens : EnvStepAllowed(t)]_vars
  /\ []PhasesTimed

C18_Witness ==
  \E t \in TGens :
    /\ tone_gen[t].playing
    /\ tone_gen[t].env_state = "ENV_SUSTAIN"
    /\ note_obs[t].offFrom = "none"
    /\ note_obs[t].n = 2
    /\ note_obs[t].done["ENV_DELAY"] = 0
    /\ note_obs[t].done["ENV_ATTACK"] = (DF_AT * AUDIO_SAMPLE_RATE) \div 1000
    /\ note_obs[t].done["ENV_HOLD"] = (DF_HL * AUDIO_SAMPLE_RATE) \div 1000
    /\ note_obs[t].done["ENV_DECAY"] = (DF_DC * AUDIO_SAMPLE_RATE) \div 1000

(* C19: a note that is sounding keeps the waveform, the envelope counts,   *)
(* the sustain level and the release count of the instrument it was        *)
(* started with, whatever instrument is selected on its generator          *)
(* afterwards.                                                             *)
C19_NoteKeepsInstrument ==
  \A t \in TGens :
    (note_obs[t].kind = "melodic" /\ tone_gen[t].playing) =>
      LET ins == catalog[note_obs[t].ins]
      IN /\ tone_gen[t].waveform_array = ins.waveforms
         /\ \A p \in TimedPhases :
              note_obs[t].done[p] \in {-1, Duration(ins, p)}
         /\ Releasing(t) =>
              /\ tone_gen[t].env_count + note_obs[t].n = ins.release
              /\ tone_gen[t].env_incr = -(ins.sustain_level \div ins.release)

(* the next command is a note-on for generator t, with its note byte       *)
NoteOnIsNext(t) ==
  /\ Stepping
  /\ score_cursor + 1 < Len(score)
  /\ score[score_cursor + 1] = CMD_PLAYNOTE + t

(* C20: a note-on for a voice that is active, in whatever envelope state,  *)
(* melodic or percussion, leaves the voice active with the state of the    *)
(* new note alone: a melodic note in Delay with multiplier 0, a percussion *)
(* note at phase 0 with unity multiplier; the voice is at no point         *)
(* inactive or put into Release, and no other voice changes.               *)
C20_NoteOnOverwrites ==
  [][\A t \in TGens :
       (NoteOnIsNext(t) /\ tone_gen[t].playing) =>
         LET note == score[score_cursor + 2]
             new == tone_gen'[t]
         IN /\ new.playing
            /\ note < 128 =>
                 /\ ~new.percussion
                 /\ new.env_state = "ENV_DELAY"
                 /\ new.env_mult = 0
                 /\ new.env_incr = 0
                 /\ new.env_count = catalog[new.instrument_index].delay
                 /\ new.waveform_array < NumInstruments
            /\ note >= 128 =>
                 /\ new.percussion
                 /\ new.tone_phase = 0
                 /\ new.env_mult = UNITY
                 /\ new.env_incr = 0
                 /\ new.waveform_array >= NumInstruments
            /\ new.instrument_index = tone_gen[t].instrument_index
            /\ \A u \in TGens \ {t} : tone_gen'[u] = tone_gen[u]]_vars

C20_Witness ==
  \E t, u \in TGens :
    /\ note_obs[t].kind = "melodic"
    /\ note_obs[t].over = "ENV_RELEASE"
    /\ note_obs[t].age = 0
    /\ tone_gen[t].playing
    /\ tone_gen[t].env_state = "ENV_DELAY"
    /\ tone_gen[t].env_mult = 0
    /\ note_obs[u].kind = "percussion"
    /\ note_obs[u].over = "percussion"
    /\ note_obs[u].age = 0
    /\ tone_gen[u].playing
    /\ tone_gen[u].tone_phase = 0
(* the next command is a note-off for voice t                              *)
NoteOffIsNext(t) ==
  /\ Stepping
  /\ score_cursor < Len(score)
  /\ score[score_cursor + 1] = CMD_STOPNOTE + t

(* C21: a note-off deactivates an active percussion voice in the same      *)
(* decoding step, leaves an active melodic voice active and in Release,    *)
(* and changes nothing on an inactive voice; a melodic voice in Release is *)
(* deactivated only by the sample rendered once its countdown is zero.     *)
C21_NoteOffByKind ==
  [][\A t \in TGens :
       /\ NoteOffIsNext(t) =>
            /\ (tone_gen[t].playing /\ tone_gen[t].percussion) =>
                 tone_gen'[t] = [tone_gen[t] EXCEPT !.playing = FALSE]
            /\ (tone_gen[t].playing /\ ~tone_gen[t].percussion) =>
                 /\ tone_gen'[t].playing
                 /\ tone_gen'[t].env_state = "ENV_RELEASE"
            /\ ~tone_gen[t].playing => tone_gen'[t] = tone_gen[t]
            /\ \A u \in TGens \ {t} : tone_gen'[u] = tone_gen[u]
       /\ ( /\ tone_gen[t].playing
            /\ ~tone_gen[t].percussion
            /\ tone_gen[t].env_state = "ENV_RELEASE" ) =>
            /\ ~tone_gen'[t].playing =>
                 (RenderStep /\ tone_gen[t].env_count = 0)
            /\ (RenderStep /\ t < num_tgens_used) =>
                 (tone_gen'[t].playing <=> tone_gen[t].env_count # 0)
    ]_vars

C21_Witness ==
  /\ score = ScoreKinds
  /\ obs.lastCmd = CMD_STOPNOTE + 2
  /\ tone_gen[0].percussion
  /\ ~tone_gen[0].playing
  /\ ~rd[0].ended
  /\ tone_gen[1].playing
  /\ tone_gen[1].env_state = "ENV_RELEASE"
  /\ ~tone_gen[2].playing
  /\ tone_gen[2].env_state = "ENV_IDLE"

(* C22: while the decoder called by play() is in progress in the           *)
(* foreground, the update() that interrupts it never starts decoding.      *)
C22_DecoderNotReentered ==
  fg.resume = "play_step" => pc # "upd_step"

C22_Witness ==
  /\ fg.resume = "play_step"
  /\ pc = "idle"
  /\ nsamples = fg.at + AUDIO_BLOCK_SAMPLES
  /\ scorewait_samples > 0
  /\ scorewait_samples < AUDIO_BLOCK_SAMPLES
  /\ budget.plays = 0

(* C26: when stop(), called by the host, returns, the score is not playing *)
(* and every voice is inactive or in Release.                              *)
C26_StopEffective ==
  [][(pc = "stop_end" /\ fg.from = "host" /\ pc' = "idle" /\ fg' = fg) =>
       /\ ~tune_playing'
       /\ \A t \in TGens :
            tone_gen'[t].playing =>
              /\ ~tone_gen'[t].percussion
              /\ tone_gen'[t].env_state = "ENV_RELEASE"]_vars

(* the melodic note on voice t has reached Sustain and no note-off has     *)
(* been applied to it since                                                *)
Sustained(t) ==
  /\ note_obs[t].kind = "melodic"
  /\ note_obs[t].done["ENV_DECAY"] # -1
  /\ note_obs[t].offFrom = "none"

(* C23: a melodic voice that has reached Sustain stays active and in       *)
(* Sustain, and every sample rendered of it is scaled by the sustain level *)
(* of its instrument, also after the countdown of the state has expired,   *)
(* as long as no note-off or note-on is applied to the voice.              *)
C23_SustainHolds ==
  \A t \in TGens :
    Sustained(t) =>
      /\ tone_gen[t].playing
      /\ tone_gen[t].env_state = "ENV_SUSTAIN"
      /\ tone_gen[t].env_incr = 0
      /\ tone_gen[t].env_mult = catalog[tone_gen[t].instrument_index].sustain_level
      /\ rd[t].mult # -1 =>
           rd[t].mult = catalog[tone_gen[t].instrument_index].sustain_level

C23_Witness ==
  /\ Sustained(0)
  /\ nsamples > MaxSustainLeft + 1
  /\ tone_gen[0].env_count > INT_MAX - nsamples
  /\ rd[0].mult = DF_LV_FRACT

(* C24: for a stream in which a wait lies between the restart anchor and   *)
(* every restart and which ends in stop or restart, every run of the       *)
(* decoder (tune_stepscore) ends, and it ends on a wait or on the stop     *)
(* command.                                                                *)
C24_DecoderTerminates ==
  Stepping ~>
    ( /\ pc \in {"play_ret", "upd_render"}
      /\ \/ obs.lastCmd \in 0 .. 127
         \/ obs.lastCmd \in CMD_STOP .. 255 )

C24_Witness ==
  /\ score = ScoreIdleLoop
  /\ pc = "upd_render"
  /\ score_cursor = Len(ScoreIdleLoop) - 1
  /\ obs.lastCmd = 0
  /\ nsamples > 0

(* the byte k places after the cursor, or -1 past the end of the stream     *)
Ahead(k) ==
  IF score_cursor + k < Len(score) THEN score[score_cursor + k + 1] ELSE -1

(* C25: each command moves the cursor by its documented length: note-off   *)
(* 1 byte, note-on 2 bytes without velocity (the velocity is then 127) and *)
(* 3 with it, instrument change 2 bytes, wait 2 bytes with the wait value  *)
(* (first byte * 256 + second byte) milliseconds.                          *)
C25_CommandLengths ==
  [][(Stepping /\ Ahead(0) # -1) =>
       LET c == Ahead(0)
           t == c % 16
       IN /\ c < 128 =>
               /\ score_cursor' = score_cursor + 2
               /\ Ahead(1) # -1 =>
                    scorewait_samples' =
                      (((c * 256) + Ahead(1)) * AUDIO_SAMPLE_RATE) \div 1000
          /\ c \in 128 .. 143 => score_cursor' = score_cursor + 1
          /\ c \in 144 .. 159 =>
               /\ score_cursor' =
                    score_cursor + (IF volume_present THEN 3 ELSE 2)
               /\ Ahead(1) # -1 =>
                    note_obs'[t].kind =
                      (IF Ahead(1) >= 128 THEN "percussion" ELSE "melodic")
               /\ ~volume_present => note_obs'[t].vol = 127
               /\ (volume_present /\ Ahead(2) # -1) =>
                    note_obs'[t].vol = Ahead(2)
          /\ c \in 192 .. 207 => score_cursor' = score_cursor + 2
    ]_vars

C25_Witness ==
  /\ score = ScoreLoop
  /\ Stepping
  /\ obs.lastCmd = CMD_PLAYNOTE + 1
  /\ obs.lastVol = 127
  /\ score_cursor = HdrSkip(ScoreLoop[3]) + 6
  /\ tone_gen[1].percussion
  /\ tone_gen[0].volume_frac < UNITY

(* the envelope of voice t: state, multiplier, increment, remaining count  *)
Envelope(tg) == << tg.env_state, tg.env_mult, tg.env_incr, tg.env_count >>

(* the step applies a note-off to voice t: the note-off command for t, or  *)
(* the loop of tune_stopscore (stop(), CMD_STOP, play() of a new score)    *)
NoteOffStep(t) ==
  /\ ~RenderStep
  /\ \/ NoteOffIsNext(t)
     \/ tune_playing /\ ~tune_playing'
     \/ pc = "stop_loop" /\ fg.i = t /\ fg'.i # fg.i

(* C27: a note-off applied to a melodic voice that is already in Release   *)
(* leaves its envelope state, multiplier, increment and remaining count    *)
(* as they are.                                                            *)
C27_SecondNoteOffIdle ==
  [][\A t \in TGens :
       ( /\ tone_gen[t].playing
         /\ ~tone_gen[t].percussion
         /\ tone_gen[t].env_state = "ENV_RELEASE"
         /\ NoteOffStep(t) ) =>
         Envelope(tone_gen'[t]) = Envelope(tone_gen[t])]_vars

(* C28: the envelope multiplier a sample of a voice is scaled by lies in   *)
(* 0 .. 0x10000, whatever note-ons, note-offs, instrument changes and      *)
(* rendered samples came before.                                           *)
C28_MultiplierInRange ==
  \A t \in TGens :
    rd[t].index1 # -1 => (rd[t].mult >= 0 /\ rd[t].mult <= UNITY)

C28_Witness ==
  \E t \in TGens :
    /\ rd[t].ended
    /\ ~rd[t].perc
    /\ rd[t].mult > 0
    /\ rd[t].mult < DF_LV_FRACT \div PIANO_RL
    /\ note_obs[t].done["ENV_ATTACK"] > 0
    /\ note_obs[t].done["ENV_DECAY"] > 0

(* the next byte has the high bit set and a top nibble of 0xA, 0xB or 0xD  *)
OtherIsNext ==
  /\ Stepping
  /\ Ahead(0) # -1
  /\ Ahead(0) \div 16 \in {10, 11, 13}

(* C29: a byte with top nibble 0xA, 0xB or 0xD is consumed as a one-byte   *)
(* no-op: the cursor moves by one, no voice and nothing else of the        *)
(* sequencer changes, and the decoder goes on with the next byte.          *)
C29_OtherCommandsSkipped ==
  [][OtherIsNext =>
       /\ score_cursor' = score_cursor + 1
       /\ pc' = pc
       /\ UNCHANGED << tone_gen, score, score_start, tune_playing,
                       num_tgens_used, volume_present, amplitude_fraction,
                       scorewait_samples, seed, nsamples, level, out >>
    ]_vars

C29_Witness ==
  /\ score = ScoreKinds
  /\ pc = "upd_step"
  /\ obs.lastCmd = CMD_INSTRUMENT + 31
  /\ score_cursor = 11
  /\ tone_gen[1].env_state = "ENV_RELEASE"
  /\ tone_gen[15].instrument_index = I_PIANO

(* C30: random_byte, started from the seed 23, never returns 0 and comes   *)
(* back to 23 after exactly 255 calls and not before (so it returns each   *)
(* of the 255 non-zero bytes once per period); the phase a melodic note    *)
(* starts from, random_byte() << 23, is above 0 and below 2^31.            *)
C30_RandomFullPeriod ==
  /\ seed \in 1 .. 255
  /\ (seed = 23) <=> (obs.draws = 0)
  /\ \A t \in TGens :
       ( /\ tone_gen[t].playing
         /\ note_obs[t].kind = "melodic"
         /\ note_obs[t].age = 0 ) =>
         /\ tone_gen[t].tone_phase > 0
         /\ tone_gen[t].tone_phase <= INT_MAX
         /\ tone_gen[t].tone_phase % 8388608 = 0

C30_Witness ==
  /\ score = ScoreNoteLoop
  /\ obs.draws = RANDOM_PERIOD - 1
  /\ random_byte(seed) = 23
  /\ tone_gen[0].tone_phase = InitialPhase(seed)

=============================================================================
